---- MODULE Spec2Model ----
(***************************************************************************)
(* Model of ascii_art.py: the command line entry point main and the        *)
(* conversion image_to_ascii, followed statement by statement.             *)
(*                                                                         *)
(* Characters are one-character strings, a str is a sequence of them.      *)
(* y_scale is the rational ysNum / YDen.  The pixel data Pillow's resize   *)
(* returns is any buffer of width * new_h intensities: the resampling      *)
(* filter lies outside the program.                                        *)
(***************************************************************************)
EXTENDS Integers, Sequences, FiniteSets, TLC

\* ---------------------------------------------------------------- bounds
MaxDim == 3        \* largest decoded image width / height
MaxWidth == 3      \* largest --width
MaxNeg == 1        \* --width and the y-scale numerator go down to -MaxNeg
MaxYNum == 3       \* largest y-scale numerator
YDen == 2          \* y-scale denominator: y_scale = ysNum / YDen
MaxPixels == 6     \* largest resized buffer (width * new_h) that is served
MaxGradLen == 8    \* quantization runs: gradient lengths 2..MaxGradLen

NL == "\n"

DEFAULT_GRADIENT == <<"@", "%", "#", "*", "+", "=", "-", ":", ".", " ">>

\* Intensities of the resized pixels the conversion runs draw from.
Intensities == {0, 128, 255}

\* Values of --gradient: absent, too short, and valid ones (one with a
\* repeated character).
None == [some |-> FALSE, val |-> <<>>]
Some(v) == [some |-> TRUE, val |-> v]
ArgGradients ==
    {None, Some(<<>>), Some(<<"x">>), Some(<<"a", "b">>), Some(<<"a", "a", "b">>)}

\* Values of --output: absent, the empty string, a path.
ArgOutputs == {None, Some(""), Some("out.txt")}

NoArgs ==
    [input |-> "", width |-> 0, ysNum |-> 0, invert |-> FALSE,
     gradient |-> None, output |-> None]

ArgSpace ==
    [input : {"img.png"}, width : (0 - MaxNeg)..MaxWidth,
     ysNum : (0 - MaxNeg)..MaxYNum, invert : BOOLEAN,
     gradient : ArgGradients, output : ArgOutputs]

\* What lies at the input path: nothing, an undecodable file, or an image
\* of w x h pixels.
Disks ==
    {[exists |-> FALSE, decodes |-> FALSE, w |-> 0, h |-> 0],
     [exists |-> TRUE, decodes |-> FALSE, w |-> 0, h |-> 0]}
    \cup [exists : {TRUE}, decodes : {TRUE}, w : 0..MaxDim, h : 0..MaxDim]

Unset == 0 - 1

VARIABLES
    pc,         \* position in main / image_to_ascii
    cmdline,    \* how argv parses: "ok", "usage" (argparse error), "help"
    disk,       \* the file at the input path
    args,       \* the parsed Namespace
    calls,      \* number of calls of image_to_ascii
    gradient,   \* local of image_to_ascii
    orig_w, orig_h, new_h,
    pixels,     \* img.getdata() after the resize
    chars, lines,
    ascii_art,  \* value returned to main
    err,        \* exception raised by image_to_ascii or by the write
    stdout, stderr,
    outfile,    \* the file at the output path
    status      \* process exit status, Unset while running

vars ==
    <<pc, cmdline, disk, args, calls, gradient, orig_w, orig_h, new_h, pixels,
      chars, lines, ascii_art, err, stdout, stderr, outfile, status>>

\* ------------------------------------------------------- pure functions
Max(a, b) == IF a >= b THEN a ELSE b
Min(a, b) == IF a <= b THEN a ELSE b

\* int(x) of a rational a / b, b > 0: truncation toward zero.
PyInt(a, b) == IF a >= 0 THEN a \div b ELSE 0 - ((0 - a) \div b)

\* new_h = max(1, int(orig_h * (width / orig_w) * y_scale))
NewHeightNoClamp(oh, ow, width, ysNum) == PyInt(oh * width * ysNum, ow * YDen)
NewHeight(oh, ow, width, ysNum) == Max(1, PyInt(oh * width * ysNum, ow * YDen))

\* len(gradient) < 2
GradientTooShortOffByOne(g) == Len(g) < 1
GradientTooShort(g) == Len(g) < 2

\* gradient[::-1]
Reversed(g) == [i \in 1..Len(g) |-> g[Len(g) - i + 1]]

\* lines 72-78 without the length check: the gradient used for the mapping
EffectiveGradientNoInvert(g, invert) == IF g.some THEN g.val ELSE DEFAULT_GRADIENT
EffectiveGradient(g, invert) ==
    LET chosen == IF g.some THEN g.val ELSE DEFAULT_GRADIENT
    IN  IF invert THEN Reversed(chosen) ELSE chosen

\* p * (n - 1) // 255
IndexRounded(p, n) == (2 * p * (n - 1) + 255) \div 510
IndexScaled(p, n) == (p * n) \div 256
Index(p, n) == (p * (n - 1)) \div 255

\* gradient[k] with Python's indexing: 0-based, negative k counts from the end
InRange(g, k) == (0 - Len(g)) <= k /\ k <= Len(g) - 1
PyItem(g, k) == IF k >= 0 THEN g[k + 1] ELSE g[Len(g) + k + 1]

\* [gradient[p * (n - 1) // 255] for p in pixels]
MapPixels(px, g) == [i \in 1..Len(px) |-> PyItem(g, Index(px[i], Len(g)))]

\* ["".join(chars[i : i + width]) for i in range(0, len(chars), width)]
ChunksShort(cs, width) ==
    [k \in 1..(Len(cs) \div width) |->
        SubSeq(cs, (k - 1) * width + 1, Min(k * width, Len(cs)) - 1)]
Chunks(cs, width) ==
    [k \in 1..((Len(cs) + width - 1) \div width) |->
        SubSeq(cs, (k - 1) * width + 1, Min(k * width, Len(cs)))]

\* "\n".join(lines)
RECURSIVE JoinTrailing(_)
JoinTrailing(ls) ==
    IF ls = <<>> THEN <<>> ELSE Head(ls) \o <<NL>> \o JoinTrailing(Tail(ls))
RECURSIVE Join(_)
Join(ls) ==
    IF ls = <<>> THEN <<>>
    ELSE IF Len(ls) = 1 THEN Head(ls)
    ELSE Head(ls) \o <<NL>> \o Join(Tail(ls))

\* Number of pixels the resize is asked for when the image at the input
\* path is valid and the width positive, else 0.
PixelCount(d, a) ==
    IF d.decodes /\ d.w > 0 /\ d.h > 0 /\ a.width > 0
    THEN a.width * NewHeight(d.h, d.w, a.width, a.ysNum)
    ELSE 0

\* All buffers of n intensities.
Buffers(n) == [1..n -> Intensities]

\* ------------------------------------------------------------------ Init
Init ==
    /\ pc = "parse"
    /\ cmdline \in {"ok", "usage", "help"}
    /\ disk \in Disks
    /\ args = NoArgs
    /\ calls = 0
    /\ gradient = <<>>
    /\ orig_w = Unset
    /\ orig_h = Unset
    /\ new_h = Unset
    /\ pixels = <<>>
    /\ chars = <<>>
    /\ lines = <<>>
    /\ ascii_art = <<>>
    /\ err = "none"
    /\ stdout = <<>>
    /\ stderr = <<>>
    /\ outfile = [exists |-> FALSE, content |-> <<>>]
    /\ status = Unset

\* ------------------------------------------------------------------ main
\* args = parse_args(argv): argparse leaves the process itself on a usage
\* error (status 2, message on stderr) and on -h (status 0, help on stdout).
\* The command lines served keep the resized buffer within MaxPixels.
ParseArgs ==
    /\ pc = "parse"
    /\ \/ /\ cmdline = "usage"
          /\ stderr' = Append(stderr, [kind |-> "usage", what |-> "argparse"])
          /\ status' = 2
          /\ pc' = "exited"
          /\ UNCHANGED <<args, stdout>>
       \/ /\ cmdline = "help"
          /\ stdout' = Append(stdout, [kind |-> "help", text |-> <<>>])
          /\ status' = 0
          /\ pc' = "exited"
          /\ UNCHANGED <<args, stderr>>
       \/ /\ cmdline = "ok"
          /\ \E a \in ArgSpace :
                /\ PixelCount(disk, a) <= MaxPixels
                /\ args' = a
          /\ pc' = "check_file"
          /\ UNCHANGED <<stdout, stderr, status>>
    /\ UNCHANGED <<cmdline, disk, calls, gradient, orig_w, orig_h, new_h, pixels,
                   chars, lines, ascii_art, err, outfile>>

\* -------------------------------------------------------- image_to_ascii
Raise(e) == err' = e /\ pc' = "except"

\* if not os.path.isfile(image_path): raise FileNotFoundError
CheckFile ==
    /\ pc = "check_file"
    /\ calls' = calls + 1
    /\ IF ~disk.exists THEN Raise("FileNotFoundError")
       ELSE err' = err /\ pc' = "check_gradient"
    /\ UNCHANGED <<cmdline, disk, args, gradient, orig_w, orig_h, new_h, pixels,
                   chars, lines, ascii_art, stdout, stderr, outfile, status>>

\* default gradient, length check, inversion
CheckGradient ==
    /\ pc = "check_gradient"
    /\ IF GradientTooShort(EffectiveGradient(args.gradient, FALSE))
       THEN Raise("ValueError: gradient") /\ gradient' = gradient
       ELSE /\ gradient' = EffectiveGradient(args.gradient, args.invert)
            /\ err' = err
            /\ pc' = "open"
    /\ UNCHANGED <<cmdline, disk, args, calls, orig_w, orig_h, new_h, pixels,
                   chars, lines, ascii_art, stdout, stderr, outfile, status>>

\* Image.open(image_path), convert("L"), img.size
OpenImage ==
    /\ pc = "open"
    /\ IF ~disk.decodes
       THEN Raise("UnidentifiedImageError") /\ UNCHANGED <<orig_w, orig_h>>
       ELSE /\ orig_w' = disk.w
            /\ orig_h' = disk.h
            /\ err' = err
            /\ pc' = "check_dims"
    /\ UNCHANGED <<cmdline, disk, args, calls, gradient, new_h, pixels,
                   chars, lines, ascii_art, stdout, stderr, outfile, status>>

\* the dimension check with "and" in place of "or"
CheckDimsBoth ==
    /\ pc = "check_dims"
    /\ IF orig_w = 0 /\ orig_h = 0
       THEN Raise("ValueError: dimensions")
       ELSE err' = err /\ pc' = "height"
    /\ UNCHANGED <<cmdline, disk, args, calls, gradient, orig_w, orig_h, new_h,
                   pixels, chars, lines, ascii_art, stdout, stderr, outfile, status>>

\* if orig_w == 0 or orig_h == 0: raise ValueError
CheckDims ==
    /\ pc = "check_dims"
    /\ IF orig_w = 0 \/ orig_h = 0
       THEN Raise("ValueError: dimensions")
       ELSE err' = err /\ pc' = "height"
    /\ UNCHANGED <<cmdline, disk, args, calls, gradient, orig_w, orig_h, new_h,
                   pixels, chars, lines, ascii_art, stdout, stderr, outfile, status>>

\* new_h = max(1, int(...)); width / orig_w raises ZeroDivisionError at 0
ComputeHeight ==
    /\ pc = "height"
    /\ IF orig_w = 0
       THEN Raise("ZeroDivisionError") /\ new_h' = new_h
       ELSE /\ new_h' = NewHeight(orig_h, orig_w, args.width, args.ysNum)
            /\ err' = err
            /\ pc' = "resize"
    /\ UNCHANGED <<cmdline, disk, args, calls, gradient, orig_w, orig_h, pixels,
                   chars, lines, ascii_art, stdout, stderr, outfile, status>>

\* img.resize((width, new_h)); img.getdata(): Pillow refuses a size below 1
\* ("height and width must be > 0"), else hands back width * new_h pixels.
Resize ==
    /\ pc = "resize"
    /\ IF args.width < 1 \/ new_h < 1
       THEN Raise("ValueError: size") /\ pixels' = pixels
       ELSE /\ pixels' \in Buffers(args.width * new_h)
            /\ err' = err
            /\ pc' = "map"
    /\ UNCHANGED <<cmdline, disk, args, calls, gradient, orig_w, orig_h, new_h,
                   chars, lines, ascii_art, stdout, stderr, outfile, status>>

MapChars ==
    /\ pc = "map"
    /\ IF \E i \in 1..Len(pixels) : ~InRange(gradient, Index(pixels[i], Len(gradient)))
       THEN Raise("IndexError") /\ chars' = chars
       ELSE /\ chars' = MapPixels(pixels, gradient)
            /\ err' = err
            /\ pc' = "join"
    /\ UNCHANGED <<cmdline, disk, args, calls, gradient, orig_w, orig_h, new_h,
                   pixels, lines, ascii_art, stdout, stderr, outfile, status>>

JoinLines ==
    /\ pc = "join"
    /\ lines' = Chunks(chars, args.width)
    /\ ascii_art' = Join(Chunks(chars, args.width))
    /\ pc' = "returned"
    /\ UNCHANGED <<cmdline, disk, args, calls, gradient, orig_w, orig_h, new_h,
                   pixels, chars, err, stdout, stderr, outfile, status>>

\* ------------------------------------------------------- main, continued
\* the except clause without its return: control falls through to the output
HandleErrorFallThrough ==
    /\ pc = "except"
    /\ stderr' = Append(stderr, [kind |-> "Error", what |-> err])
    /\ pc' = "returned"
    /\ UNCHANGED <<cmdline, disk, args, calls, gradient, orig_w, orig_h, new_h,
                   pixels, chars, lines, ascii_art, err, stdout, outfile, status>>

\* except Exception as e: print(f"Error: {e}", file=sys.stderr); return 1
HandleError ==
    /\ pc = "except"
    /\ stderr' = Append(stderr, [kind |-> "Error", what |-> err])
    /\ status' = 1
    /\ pc' = "exited"
    /\ UNCHANGED <<cmdline, disk, args, calls, gradient, orig_w, orig_h, new_h,
                   pixels, chars, lines, ascii_art, err, stdout, outfile>>

\* if args.output:
OutputGiven == args.output.some /\ args.output.val # ""

\* the write branch returning 0 after a failed write
WriteOutputFailZero ==
    /\ pc = "returned"
    /\ OutputGiven
    /\ \/ /\ outfile' = [exists |-> TRUE, content |-> ascii_art]
          /\ stdout' = Append(stdout, [kind |-> "written", text |-> <<>>])
          /\ stderr' = stderr
       \/ /\ stderr' = Append(stderr, [kind |-> "Failed to write", what |-> "OSError"])
          /\ UNCHANGED <<outfile, stdout>>
    /\ status' = 0
    /\ pc' = "exited"
    /\ UNCHANGED <<cmdline, disk, args, calls, gradient, orig_w, orig_h, new_h,
                   pixels, chars, lines, ascii_art, err>>

\* open(args.output, "w"), f.write(ascii_art), the confirmation on stdout;
\* the open can fail, and then the file is left as it was.
WriteOutput ==
    /\ pc = "returned"
    /\ OutputGiven
    /\ \/ /\ outfile' = [exists |-> TRUE, content |-> ascii_art]
          /\ stdout' = Append(stdout, [kind |-> "written", text |-> <<>>])
          /\ status' = 0
          /\ stderr' = stderr
       \/ /\ stderr' = Append(stderr, [kind |-> "Failed to write", what |-> "OSError"])
          /\ status' = 1
          /\ UNCHANGED <<outfile, stdout>>
    /\ pc' = "exited"
    /\ UNCHANGED <<cmdline, disk, args, calls, gradient, orig_w, orig_h, new_h,
                   pixels, chars, lines, ascii_art, err>>

\* print(ascii_art); return 0
PrintArt ==
    /\ pc = "returned"
    /\ ~OutputGiven
    /\ stdout' = Append(stdout, [kind |-> "art", text |-> ascii_art])
    /\ status' = 0
    /\ pc' = "exited"
    /\ UNCHANGED <<cmdline, disk, args, calls, gradient, orig_w, orig_h, new_h,
                   pixels, chars, lines, ascii_art, err, stderr, outfile>>

Next ==
    \/ ParseArgs
    \/ CheckFile
    \/ CheckGradient
    \/ OpenImage
    \/ CheckDims
    \/ ComputeHeight
    \/ Resize
    \/ MapChars
    \/ JoinLines
    \/ HandleError
    \/ WriteOutput
    \/ PrintArt

Spec == Init /\ [][Next]_vars

\* ------------------------------------------------- quantization runs
\* The mapping step on its own: one resized pixel of every intensity
\* 0..255 against the default gradient and its prefixes of length
\* 2..MaxGradLen.
QGradients ==
    {None} \cup {Some(SubSeq(DEFAULT_GRADIENT, 1, n)) : n \in 2..MaxGradLen}

InitQ ==
    /\ pc = "map"
    /\ cmdline = "ok"
    /\ disk = [exists |-> TRUE, decodes |-> TRUE, w |-> 1, h |-> 1]
    /\ \E g \in QGradients :
          /\ args = [input |-> "img.png", width |-> 1, ysNum |-> YDen,
                     invert |-> FALSE, gradient |-> g, output |-> None]
          /\ gradient = EffectiveGradient(g, FALSE)
    /\ calls = 1
    /\ orig_w = 1
    /\ orig_h = 1
    /\ new_h = 1
    /\ pixels \in [1..1 -> 0..255]
    /\ chars = <<>>
    /\ lines = <<>>
    /\ ascii_art = <<>>
    /\ err = "none"
    /\ stdout = <<>>
    /\ stderr = <<>>
    /\ outfile = [exists |-> FALSE, content |-> <<>>]
    /\ status = Unset

NextQ == MapChars \/ JoinLines

SpecQ == InitQ /\ [][NextQ]_vars

\* =================================================================
\* Properties
\* =================================================================
\* The --gradient value, or the default when the option is absent.
GivenGradient == IF args.gradient.some THEN args.gradient.val ELSE DEFAULT_GRADIENT

\* image_to_ascii was called and has returned its text to main.
Returned == calls = 1 /\ err = "none" /\ pc \in {"returned", "exited"}

\* image_to_ascii was called and is over, one way or the other.
Over == calls = 1 /\ pc \in {"returned", "except", "exited"}

\* A text cut at its newlines.
RECURSIVE SplitLines(_)
SplitLines(t) ==
    IF t = <<>> THEN << <<>> >>
    ELSE LET rest == SplitLines(Tail(t))
         IN  IF Head(t) = NL THEN << <<>> >> \o rest
             ELSE << <<Head(t)>> \o Head(rest) >> \o Tail(rest)

\* A sequence back to front, by recursion.
RECURSIVE Backwards(_)
Backwards(s) == IF s = <<>> THEN <<>> ELSE Append(Backwards(Tail(s)), Head(s))

\* The art was delivered: printed on stdout or written to the output file.
Delivered == outfile.exists \/ \E i \in 1..Len(stdout) : stdout[i].kind = "art"

\* C1: for a valid image and a width W > 0 the returned text, cut at its
\* newlines, has exactly new_h rows, each of exactly W characters, and
\* nothing after the last row.
C1_Rectangular ==
    (Returned /\ args.width > 0) =>
        LET rows == SplitLines(ascii_art)
        IN  /\ Len(rows) = new_h
            /\ \A r \in 1..Len(rows) : Len(rows[r]) = args.width
            /\ Len(ascii_art) = new_h * args.width + (new_h - 1)
            /\ ascii_art[Len(ascii_art)] # NL

C1_Witness ==
    /\ Returned
    /\ args.width = 2
    /\ new_h = 2
    /\ Len(SplitLines(ascii_art)) = 2

\* C2: with invert set and gradient G (length >= 2, repeated characters
\* allowed) the returned text is the text of the conversion of the same
\* resized pixels with invert off and the gradient G back to front.
C2_InversionEquivalence ==
    (Returned /\ args.invert /\ Len(GivenGradient) >= 2) =>
        ascii_art =
            Join(Chunks(MapPixels(pixels,
                                  EffectiveGradient(Some(Backwards(GivenGradient)), FALSE)),
                        args.width))

C2_Witness ==
    /\ Returned
    /\ args.invert
    /\ args.gradient = Some(<<"a", "a", "b">>)
    /\ pixels = <<0, 255>>
    /\ ascii_art = <<"b", "a">>

\* C3: a pixel p is mapped to the gradient character at the index k with
\* 255 * k <= p * (n - 1) < 255 * (k + 1), the floor of p * (n - 1) / 255;
\* with the default gradient 0 gives '@', 255 gives ' ' and 128 gives the
\* character at index 4, '+'.
C3_FloorQuantization ==
    (pc \in {"join", "returned"}) =>
        LET p == pixels[1]
            n == Len(gradient)
        IN  /\ \E k \in 0..(n - 1) :
                  /\ 255 * k <= p * (n - 1)
                  /\ p * (n - 1) < 255 * (k + 1)
                  /\ chars[1] = gradient[k + 1]
            /\ (args.gradient = None /\ p = 0) => chars[1] = "@"
            /\ (args.gradient = None /\ p = 255) => chars[1] = " "
            /\ (args.gradient = None /\ p = 128) =>
                  chars[1] = "+" /\ chars[1] = DEFAULT_GRADIENT[4 + 1]

C3_Witness ==
    /\ pc = "returned"
    /\ args.gradient = None
    /\ pixels = <<128>>
    /\ ascii_art = <<"+">>

\* C4 as claimed: a conversion with a gradient shorter than 2 ends with the
\* gradient error whatever lies at the input path.
C4_Original ==
    (Over /\ Len(GivenGradient) < 2) => err = "ValueError: gradient"

\* C4 amended: a conversion with a gradient shorter than 2 never opens the
\* image and never returns text; it ends with the gradient error when the
\* input path names a file, whatever that file holds, and with the
\* file-not-found error when it does not.
C4_ShortGradientFails ==
    (calls = 1 /\ Len(GivenGradient) < 2) =>
        /\ pc \in {"check_gradient", "except", "exited"}
        /\ orig_w = Unset
        /\ ascii_art = <<>>
        /\ ~Delivered
        /\ Over => err = (IF disk.exists THEN "ValueError: gradient"
                          ELSE "FileNotFoundError")

C4_Witness ==
    /\ pc = "except"
    /\ args.gradient = Some(<<"x">>)
    /\ disk.decodes
    /\ disk.w = 0
    /\ err = "ValueError: gradient"

\* C5 as claimed: with a valid image and gradient, a width <= 0 or a
\* y-scale <= 0 makes the conversion fail with a parameter error (Pillow's
\* refusal of the size counted as one) and return no text.
C5_NonPositiveRejected ==
    (/\ Over
     /\ disk.decodes /\ disk.w > 0 /\ disk.h > 0
     /\ Len(GivenGradient) >= 2
     /\ (args.width <= 0 \/ args.ysNum <= 0)) =>
        err \in {"ValueError: gradient", "ValueError: size"}

\* C6 as claimed: an image of width or height 0 always ends the conversion
\* with the dimension error.
C6_Original ==
    (Over /\ disk.decodes /\ (disk.w = 0 \/ disk.h = 0)) =>
        err = "ValueError: dimensions"

\* C6 amended: an image of width or height 0 always makes the conversion
\* fail before any height is computed, any resize or any mapping; the
\* error is the dimension error when the gradient has at least 2
\* characters, and the gradient error otherwise.
C6_ZeroDimensionFails ==
    (calls = 1 /\ disk.decodes /\ (disk.w = 0 \/ disk.h = 0)) =>
        /\ pc \in {"check_gradient", "open", "check_dims", "except", "exited"}
        /\ new_h = Unset
        /\ pixels = <<>>
        /\ chars = <<>>
        /\ ascii_art = <<>>
        /\ Over => err = (IF Len(GivenGradient) < 2 THEN "ValueError: gradient"
                          ELSE "ValueError: dimensions")

C6_Witness ==
    /\ pc = "except"
    /\ orig_w > 0
    /\ orig_h = 0
    /\ err = "ValueError: dimensions"

\* C7 as claimed: every run ends with status 0 exactly when the conversion
\* succeeded and the art was delivered, and any other run ends with status
\* 1 and a message on stderr.
C7_Original ==
    (pc = "exited") =>
        /\ status = 0 <=> (Returned /\ Delivered)
        /\ status # 0 => (status = 1 /\ stderr # <<>>)

\* C7 amended: a run whose command line parses ends with status 0 exactly
\* when the conversion succeeded and the art was delivered, and with status
\* 1 and one message on stderr after any failure of the conversion or of
\* the write; a usage error ends the run with status 2 and a message on
\* stderr, and -h with status 0, both without any conversion.
C7_ExitContract ==
    (pc = "exited") =>
        /\ cmdline = "ok" =>
              /\ status = 0 <=> (Returned /\ Delivered)
              /\ status # 0 => (status = 1 /\ Len(stderr) = 1)
              /\ status = 0 => stderr = <<>>
        /\ cmdline = "usage" => (status = 2 /\ stderr # <<>> /\ calls = 0 /\ ~Delivered)
        /\ cmdline = "help" => (status = 0 /\ stderr = <<>> /\ calls = 0 /\ ~Delivered)

C7_Witness ==
    /\ pc = "exited"
    /\ Returned
    /\ ~Delivered
    /\ status = 1
    /\ stderr = <<[kind |-> "Failed to write", what |-> "OSError"]>>

\* C8: once image_to_ascii has failed, nothing is ever printed on stdout,
\* the output file is neither created nor written, no text exists, and the
\* conversion is not tried again.
C8_NoOutputOnFailure ==
    /\ calls <= 1
    /\ err # "none" =>
          /\ stdout = <<>>
          /\ ~outfile.exists
          /\ outfile.content = <<>>
          /\ ascii_art = <<>>
          /\ pc \in {"except", "exited"}
          /\ pc = "exited" => status = 1

C8_Witness ==
    /\ pc = "exited"
    /\ err = "ValueError: dimensions"
    /\ OutputGiven
    /\ stdout = <<>>
    /\ status = 1

\* C9: the height is max(1, floor(orig_h * (width / orig_w) * y_scale)),
\* and a valid image with a positive width and a positive y-scale always
\* yields text of at least one row, also when the scaled height floors to 0.
C9_HeightAtLeastOne ==
    /\ (pc \in {"resize", "map", "join", "returned"}) =>
          new_h = Max(1, (orig_h * args.width * args.ysNum) \div (orig_w * YDen))
    /\ (/\ Over
        /\ disk.decodes /\ disk.w > 0 /\ disk.h > 0
        /\ Len(GivenGradient) >= 2
        /\ args.width > 0 /\ args.ysNum > 0) =>
          /\ err = "none"
          /\ Len(lines) = new_h
          /\ Len(SplitLines(ascii_art)) >= 1

C9_Witness ==
    /\ Returned
    /\ args.width > 0
    /\ args.ysNum > 0
    /\ (orig_h * args.width * args.ysNum) \div (orig_w * YDen) = 0
    /\ Len(lines) = 1

\* C10: for every gradient length n >= 2 and pixel p in 0..255 the index
\* p * (n - 1) // 255 lies in 0..n-1, so that the lookup never raises; it
\* never decreases as p grows; and it is n - 1 only at p = 255.
C10_IndexInRange ==
    LET p == pixels[1]
        n == Len(gradient)
    IN  /\ n >= 2
        /\ Index(p, n) \in 0..(n - 1)
        /\ \A q \in 0..255 : q <= p => Index(q, n) <= Index(p, n)
        /\ Index(p, n) = n - 1 <=> p = 255
        /\ err # "IndexError"
        /\ pc # "except"

C10_Witness ==
    /\ pc = "returned"
    /\ pixels = <<254>>
    /\ Len(gradient) = MaxGradLen
    /\ ascii_art = <<gradient[MaxGradLen - 1]>>

====
